---- MODULE Spec2Model ----
(***************************************************************************)
(* A model of kraken's baseline segmenter entry point, kraken.blla.segment *)
(* (src/kraken/blla.py), and of the legacy pickle loader,                  *)
(* kraken.lib.models.load_pyrnn (src/kraken/lib/models.py).                *)
(*                                                                         *)
(* segment() is modelled statement by statement: each action is one step   *)
(* of the function body, pc is the position in it.  The collaborators the  *)
(* function calls (the model loader, the network, vectorize_lines,         *)
(* scale_polygonal_lines, the reading order function) live outside the     *)
(* two source files; they are modelled by their contract.                  *)
(***************************************************************************)
EXTENDS Integers, Sequences, FiniteSets

\* ------------------------------------------------------------------ bounds

\* Image width and height range over 1..MaxImDim.
MaxImDim == 2
\* Raster (network output) width and height range over 1..MaxRasterDim.
MaxRasterDim == 2
\* The network output holds at most MaxLines traces.
MaxLines == 2
\* Number of channels (classes) of the network output.
MaxChannels == 3

\* Python's None, for the variables that hold a name.
None == "None"

\* What a variable of segment() holds before it is bound.
NoImage == [size |-> <<0, 0>>]
NoMask == [mode |-> "None", values |-> {}, size |-> <<0, 0>>]
NoArgs == [im |-> NoImage, text_direction |-> <<>>, mask |-> NoMask, model_ok |-> FALSE]
NoTensor == [image |-> NoImage]
NoRaster == [shape |-> <<0, 0, 0>>, traces |-> <<>>]
NoResult == [text_direction |-> <<>>, type |-> "None", lines |-> <<>>]

\* ----------------------------------------------------------- text helpers

\* Strings the code slices are modelled as sequences of characters.
HorizontalLr == <<"h","o","r","i","z","o","n","t","a","l","-","l","r">>
VerticalRl == <<"v","e","r","t","i","c","a","l","-","r","l">>
Sideways == <<"s","i","d","e","w","a","y","s">>
ShortTag == <<"r">>

\* The direction tags the toolkit recognizes.
RecognizedDirections == {HorizontalLr, VerticalRl}

\* The values callers pass as text_direction (any str is accepted by Python).
Directions == RecognizedDirections \cup {Sideways, ShortTag}

\* A plausible slip: the whole tag is handed on instead of its suffix.
WholeString(s) == s

\* s[-2:] : the last two characters, or all of s when it is shorter.
Last2(s) == IF Len(s) <= 2 THEN s ELSE SubSeq(s, Len(s) - 1, Len(s))

\* ------------------------------------------------------------- arithmetic

RECURSIVE GCD(_, _)
GCD(a, b) == IF b = 0 THEN a ELSE GCD(b, a % b)

\* The exact quotient n / d (d > 0) as a fraction in lowest terms.
Frac(n, d) == LET g == GCD(n, d) IN <<n \div g, d \div g>>

\* x * f for an integer x and a fraction f.
MulFrac(x, f) == Frac(x * f[1], f[2])

\* np.divide(a, b): elementwise true division of two equally long tuples.
NpDivide(a, b) == [i \in 1..Len(a) |-> Frac(a[i], b[i])]

\* shape[1:] : the forward slice, (H, W) for a (C, H, W) shape.
SliceFrom1(shape) == [i \in 1..(Len(shape) - 1) |-> shape[i + 1]]

\* shape[:0:-1] : from the last index down to index 1, (W, H) for (C, H, W).
SliceRevTo0(shape) == [i \in 1..(Len(shape) - 1) |-> shape[Len(shape) + 1 - i]]

\* A plausible slip: the raster shape is not reversed before the division.
ScaleFactorUnreversed(imsize, oshape) == NpDivide(imsize, SliceFrom1(oshape))

\* scale = np.divide(im.size, o.shape[:0:-1])
ScaleFactor(imsize, oshape) == NpDivide(imsize, SliceRevTo0(oshape))

\* ------------------------------------------------------------------ inputs

\* PIL's im.size is (width, height).
ImSizes == (1..MaxImDim) \X (1..MaxImDim)

Images == [size : ImSizes]

PixelValues == {0, 128, 255}

\* A PIL mask image: its mode, the set of pixel values it holds, its size.
\* A mode '1' image holds only 0 and 255.
Masks ==
    {m \in [mode : {"1", "L"}, values : (SUBSET PixelValues) \ {{}}, size : ImSizes] :
        m.mode = "1" => m.values \subseteq {0, 255}}

\* kraken.lib.util.is_bitonal: the image holds exactly two pixel values.
is_bitonal(m) == Cardinality(m.values) = 2

\* A plausible slip: the negation of the bitonality test is lost.
MaskNotBitonalNoNegation(m) == m.mode # "1" /\ is_bitonal(m)

\* mask.mode != '1' and not is_bitonal(mask)
MaskNotBitonal(m) == m.mode # "1" /\ ~is_bitonal(m)

\* A plausible slip: only the widths are compared.
MaskSizeDiffersWidthOnly(m, i) == m.size[1] # i.size[1]

\* mask.size != im.size
MaskSizeDiffers(m, i) == m.size # i.size

\* mask.convert('1'): 0 stays 0, 255 stays 255, a grey value is dithered into
\* a mix of both.
Convert1(m) ==
    [mode |-> "1",
     values |-> UNION {IF v = 0 THEN {0} ELSE IF v = 255 THEN {255} ELSE {0, 255} :
                       v \in m.values},
     size |-> m.size]

\* pil2array(mask): a (height, width) array of the mask's values.
pil2array(m) == [mode |-> "array", values |-> m.values, size |-> <<m.size[2], m.size[1]>>]

\* ---------------------------------------------------------- network output

\* A trace found along raster row y: a baseline from the left to the right
\* edge with the polygon around it; a degenerate trace is a single point.
FullTrace(w, y) ==
    << <<<<0, y>>, <<w, y>>>>,
       <<<<0, y>>, <<w, y>>, <<w, y + 1>>, <<0, y + 1>>>> >>

DegenerateTrace(w, y) == << <<<<w, y>>>>, <<<<w, y>>>> >>

TracesOf(shape) ==
    {FullTrace(shape[3], y) : y \in 0..(shape[2] - 1)}
        \cup {DegenerateTrace(shape[3], y) : y \in 0..(shape[2] - 1)}

\* Sequences without repetition of at most n elements of S.
SeqsNoDup(S, n) ==
    UNION {{s \in [1..k -> S] : \A i, j \in 1..k : i # j => s[i] # s[j]} : k \in 0..n}

\* o.squeeze(0).numpy(): an array of shape (C, H, W); what it holds is
\* stood for by the traces that vectorization can find in it.
Rasters ==
    UNION {[shape : {sh}, traces : SeqsNoDup(TracesOf(sh), MaxLines)] :
           sh \in {MaxChannels} \X (1..MaxRasterDim) \X (1..MaxRasterDim)}

\* vectorize_lines(o): the (baseline, polygon) pairs of the traces kept;
\* a trace whose baseline has fewer than two points is discarded.
RECURSIVE KeepTraces(_)
KeepTraces(ts) ==
    IF ts = <<>> THEN <<>>
    ELSE IF Len(Head(ts)[1]) >= 2 THEN <<Head(ts)>> \o KeepTraces(Tail(ts))
    ELSE KeepTraces(Tail(ts))

vectorize_lines(o) == KeepTraces(o.traces)

ScalePoint(p, scale) == <<MulFrac(p[1], scale[1]), MulFrac(p[2], scale[2])>>

ScalePoints(ps, scale) == [k \in 1..Len(ps) |-> ScalePoint(ps[k], scale)]

\* scale_polygonal_lines(lines, scale): every coordinate of every baseline
\* and polygon multiplied by the scale of its axis.
scale_polygonal_lines(lines, scale) ==
    [k \in 1..Len(lines) |->
        <<ScalePoints(lines[k][1], scale), ScalePoints(lines[k][2], scale)>>]

Perms(n) == {p \in [1..n -> 1..n] : \A i, j \in 1..n : i # j => p[i] # p[j]}

\* reading_order_fn(lines, direction): the orders a reading order policy may
\* return, each holding every line exactly once.
reading_order_fn(lines, direction) ==
    {[k \in 1..Len(lines) |-> lines[p[k]]] : p \in Perms(Len(lines))}

\* A plausible slip: the comprehension loses its last line.
ResultLinesDropLast(bls) ==
    [k \in 1..(IF Len(bls) = 0 THEN 0 ELSE Len(bls) - 1) |->
        [script |-> "default", baseline |-> bls[k][1], boundary |-> bls[k][2]]]

\* [{'script': 'default', 'baseline': bl, 'boundary': pl} for bl, pl in baselines]
ResultLines(bls) ==
    [k \in 1..Len(bls) |->
        [script |-> "default", baseline |-> bls[k][1], boundary |-> bls[k][2]]]

\* ------------------------------------------------------------ load_pyrnn()

FnamePlain == <<"m">>
FnameGz == <<"m", ".", "g", "z">>
FnameBz2 == <<"m", ".", "b", "z", "2">>

Fnames == {FnamePlain, FnameGz, FnameBz2}

\* s.endswith(suffix)
EndsWith(s, suffix) ==
    /\ Len(s) >= Len(suffix)
    /\ SubSeq(s, Len(s) - Len(suffix) + 1, Len(s)) = suffix

\* of = open / gzip.open / bz2.BZ2File, by the suffix of fname
Opener(fname) ==
    IF EndsWith(fname, <<".", "g", "z">>) THEN "gzip.open"
    ELSE IF EndsWith(fname, <<".", "b", "z", "2">>) THEN "bz2.BZ2File"
    ELSE "open"

\* The modules models.py has imported when load_pyrnn runs.
SysModules == {"kraken.lib.lstm", "kraken.lib.lineest", "sys"}

\* The names each module defines.
ModuleAttrs(mod) ==
    CASE mod = "kraken.lib.lstm" -> {"SeqRecognizer", "Codec"}
      [] mod = "kraken.lib.lineest" -> {"CenterNormalizer"}
      [] mod = "sys" -> {"exit"}
      [] OTHER -> {}

\* The module names a pickle's GLOBAL opcode may carry, and the class names.
PickleModules == {"lstm.lstm", "ocrolib.lineest", "kraken.lib.lstm", "sys", "nosuch"}
PickleClasses == {"SeqRecognizer", "CenterNormalizer", "exit"}

\* The file: whether it exists, whether its pickle stream is well formed
\* ("ok"), malformed ("corrupt") or cut short ("truncated"), and the global
\* its object is an instance of.
PyFiles ==
    [fname : Fnames, exists : BOOLEAN, stream : {"ok", "corrupt", "truncated"},
     mname : PickleModules, cname : PickleClasses]

NoFile ==
    [fname |-> <<>>, exists |-> FALSE, stream |-> "None", mname |-> "None",
     cname |-> "None"]

NoObject == [type |-> <<>>]

Aliases == {"lstm.lstm", "ocrolib.lstm", "ocrolib.lineest"}

AliasOf(mname) ==
    IF mname = "ocrolib.lineest" THEN "kraken.lib.lineest" ELSE "kraken.lib.lstm"

\* find_global(mname, cname): the class found, or the exception that
\* getattr (AttributeError) or sys.modules[mname] (KeyError) raises.
find_global(mname, cname) ==
    IF mname \in Aliases
    THEN IF cname \in ModuleAttrs(AliasOf(mname))
         THEN [exc |-> None, class |-> <<AliasOf(mname), cname>>]
         ELSE [exc |-> "AttributeError", class |-> <<>>]
    ELSE IF mname \notin SysModules
    THEN [exc |-> "KeyError", class |-> <<>>]
    ELSE IF cname \in ModuleAttrs(mname)
    THEN [exc |-> None, class |-> <<mname, cname>>]
    ELSE [exc |-> "AttributeError", class |-> <<>>]

\* isinstance(rnn, kraken.lib.lstm.SeqRecognizer)
IsSeqRecognizer(obj) == obj.type = <<"kraken.lib.lstm", "SeqRecognizer">>

\* ------------------------------------------------------------------- state

VARIABLES
    pc,          \* position in segment()
    args,        \* the arguments of the call: im, text_direction, mask, model_ok
    mask,        \* the local variable mask
    tensor,      \* transforms(im).unsqueeze(0)
    o,           \* the network output
    baselines,   \* the local variable baselines
    scale,       \* the local variable scale
    result,      \* the value returned
    exc,         \* the exception raised
    stages,      \* the stages run so far, in order
    nn_calls,    \* number of forward passes run
    vectorized,  \* what vectorize_lines returned
    ro_calls,    \* the calls of reading_order_fn: <<lines, direction, returned>>
    py_pc,       \* position in load_pyrnn()
    py_args,     \* the file named by fname
    py_of,       \* the local variable of
    rnn,         \* the local variable rnn
    py_ret,      \* the value load_pyrnn returned
    py_exc       \* the exception load_pyrnn raised

seg_vars == <<pc, args, mask, tensor, o, baselines, scale, result, exc, stages,
              nn_calls, vectorized, ro_calls>>

py_vars == <<py_pc, py_args, py_of, rnn, py_ret, py_exc>>

vars == <<seg_vars, py_vars>>

PyInit ==
    /\ py_pc = "idle"
    /\ py_args = NoFile
    /\ py_of = None
    /\ rnn = NoObject
    /\ py_ret = NoObject
    /\ py_exc = None

SegInit ==
    /\ pc = "idle"
    /\ args = NoArgs
    /\ mask = NoMask
    /\ tensor = NoTensor
    /\ o = NoRaster
    /\ baselines = <<>>
    /\ scale = <<>>
    /\ result = NoResult
    /\ exc = None
    /\ stages = <<>>
    /\ nn_calls = 0
    /\ vectorized = <<>>
    /\ ro_calls = <<>>

Init == SegInit /\ PyInit

\* --------------------------------------------------------------- segment()

\* segment(im, text_direction, mask, reading_order_fn, model) is entered.
Call ==
    /\ pc = "idle"
    /\ \E i \in Images, td \in Directions, m \in Masks \cup {NoMask}, ok \in BOOLEAN :
        /\ args' = [im |-> i, text_direction |-> td, mask |-> m, model_ok |-> ok]
        /\ mask' = m
    /\ pc' = "entered"
    /\ UNCHANGED py_vars
    /\ UNCHANGED <<tensor, o, baselines, scale, result, exc, stages, nn_calls,
                   vectorized, ro_calls>>

\* model = vgsl.TorchVGSLModel.load_model(model); model.eval()
LoadModel ==
    /\ pc = "entered"
    /\ IF args.model_ok
       THEN pc' = "loaded" /\ exc' = exc
       ELSE pc' = "raised" /\ exc' = "ModelLoadError"
    /\ UNCHANGED py_vars
    /\ UNCHANGED <<args, mask, tensor, o, baselines, scale, result, stages,
                   nn_calls, vectorized, ro_calls>>

\* if mask: ... the bitonality test, the conversion, the size test, pil2array
ValidateMask ==
    /\ pc = "loaded"
    /\ IF mask = NoMask
       THEN pc' = "validated" /\ UNCHANGED <<mask, exc>>
       ELSE IF MaskNotBitonal(mask)
       THEN pc' = "raised" /\ exc' = "KrakenInputException" /\ UNCHANGED mask
       ELSE IF MaskSizeDiffers(Convert1(mask), args.im)
       THEN /\ pc' = "raised"
            /\ exc' = "KrakenInputException"
            /\ mask' = Convert1(mask)
       ELSE /\ pc' = "validated"
            /\ mask' = pil2array(Convert1(mask))
            /\ UNCHANGED exc
    /\ UNCHANGED py_vars
    /\ UNCHANGED <<args, tensor, o, baselines, scale, result, stages, nn_calls,
                   vectorized, ro_calls>>

\* transforms = generate_input_transforms(...); transforms(im).unsqueeze(0)
Preprocess ==
    /\ pc = "validated"
    /\ tensor' = [image |-> args.im]
    /\ stages' = Append(stages, "Preprocessed")
    /\ pc' = "preprocessed"
    /\ UNCHANGED py_vars
    /\ UNCHANGED <<args, mask, o, baselines, scale, result, exc, nn_calls,
                   vectorized, ro_calls>>

\* o = model.nn(tensor); o = o.squeeze(0).numpy()
Infer ==
    /\ pc = "preprocessed"
    /\ \E r \in Rasters : o' = r
    /\ nn_calls' = nn_calls + 1
    /\ stages' = Append(stages, "Inferred")
    /\ pc' = "inferred"
    /\ UNCHANGED py_vars
    /\ UNCHANGED <<args, mask, tensor, baselines, scale, result, exc, vectorized,
                   ro_calls>>

\* A plausible slip: an empty line list is treated as a failure.
ReorderFailsOnEmpty ==
    /\ pc = "rescaled"
    /\ IF baselines = <<>>
       THEN /\ pc' = "raised"
            /\ exc' = "KrakenInputException"
            /\ UNCHANGED <<baselines, ro_calls, stages>>
       ELSE /\ \E ordered \in reading_order_fn(baselines, Last2(args.text_direction)) :
                /\ baselines' = ordered
                /\ ro_calls' = Append(ro_calls,
                                      <<baselines, Last2(args.text_direction), ordered>>)
            /\ stages' = Append(stages, "Ordered")
            /\ pc' = "ordered"
            /\ UNCHANGED exc
    /\ UNCHANGED py_vars
    /\ UNCHANGED <<args, mask, tensor, o, scale, result, nn_calls, vectorized>>

\* A plausible slip: the vectorized lines go to ordering without rescaling.
VectorizeSkipsRescale ==
    /\ pc = "inferred"
    /\ baselines' = vectorize_lines(o)
    /\ vectorized' = vectorize_lines(o)
    /\ stages' = Append(stages, "Vectorized")
    /\ pc' = "rescaled"
    /\ UNCHANGED py_vars
    /\ UNCHANGED <<args, mask, tensor, o, scale, result, exc, nn_calls, ro_calls>>

\* baselines = vectorize_lines(o)
Vectorize ==
    /\ pc = "inferred"
    /\ baselines' = vectorize_lines(o)
    /\ vectorized' = vectorize_lines(o)
    /\ stages' = Append(stages, "Vectorized")
    /\ pc' = "vectorized"
    /\ UNCHANGED py_vars
    /\ UNCHANGED <<args, mask, tensor, o, scale, result, exc, nn_calls, ro_calls>>

\* scale = np.divide(...); baselines = scale_polygonal_lines(baselines, scale)
Rescale ==
    /\ pc = "vectorized"
    /\ scale' = ScaleFactor(args.im.size, o.shape)
    /\ baselines' = scale_polygonal_lines(baselines, ScaleFactor(args.im.size, o.shape))
    /\ stages' = Append(stages, "Rescaled")
    /\ pc' = "rescaled"
    /\ UNCHANGED py_vars
    /\ UNCHANGED <<args, mask, tensor, o, result, exc, nn_calls, vectorized, ro_calls>>

\* baselines = reading_order_fn(baselines, text_direction[-2:])
Reorder ==
    /\ pc = "rescaled"
    /\ \E ordered \in reading_order_fn(baselines, Last2(args.text_direction)) :
        /\ baselines' = ordered
        /\ ro_calls' = Append(ro_calls,
                              <<baselines, Last2(args.text_direction), ordered>>)
    /\ stages' = Append(stages, "Ordered")
    /\ pc' = "ordered"
    /\ UNCHANGED py_vars
    /\ UNCHANGED <<args, mask, tensor, o, scale, result, exc, nn_calls, vectorized>>

\* return {'text_direction': ..., 'type': 'baselines', 'lines': [...]}
Return ==
    /\ pc = "ordered"
    /\ result' = [text_direction |-> args.text_direction,
                  type |-> "baselines",
                  lines |-> ResultLines(baselines)]
    /\ pc' = "done"
    /\ UNCHANGED py_vars
    /\ UNCHANGED <<args, mask, tensor, o, baselines, scale, exc, stages, nn_calls,
                   vectorized, ro_calls>>

Next ==
    \/ Call
    \/ LoadModel
    \/ ValidateMask
    \/ Preprocess
    \/ Infer
    \/ Vectorize
    \/ Rescale
    \/ Reorder
    \/ Return

Spec == Init /\ [][Next]_vars

\* ------------------------------------------------------------ load_pyrnn() steps

\* load_pyrnn(fname) is entered.
PyCall ==
    /\ py_pc = "idle"
    /\ \E f \in PyFiles : py_args' = f
    /\ py_pc' = "entered"
    /\ UNCHANGED <<py_of, rnn, py_ret, py_exc>>
    /\ UNCHANGED seg_vars

\* of = ...; with of(fname, 'rb') as fp:
PyOpen ==
    /\ py_pc = "entered"
    /\ py_of' = Opener(py_args.fname)
    /\ IF py_args.exists
       THEN py_pc' = "opened" /\ UNCHANGED py_exc
       ELSE py_pc' = "raised" /\ py_exc' = "IOError"
    /\ UNCHANGED <<py_args, rnn, py_ret>>
    /\ UNCHANGED seg_vars

\* try: rnn = unpickler.load() except cPickle.UnpicklingError: raise ...
PyUnpickle ==
    /\ py_pc = "opened"
    /\ IF py_args.stream = "corrupt"
       THEN py_pc' = "raised" /\ py_exc' = "KrakenInvalidModelException" /\ UNCHANGED rnn
       ELSE IF py_args.stream = "truncated"
       THEN py_pc' = "raised" /\ py_exc' = "EOFError" /\ UNCHANGED rnn
       ELSE LET g == find_global(py_args.mname, py_args.cname) IN
            IF g.exc # None
            THEN py_pc' = "raised" /\ py_exc' = g.exc /\ UNCHANGED rnn
            ELSE py_pc' = "unpickled" /\ rnn' = [type |-> g.class] /\ UNCHANGED py_exc
    /\ UNCHANGED <<py_args, py_of, py_ret>>
    /\ UNCHANGED seg_vars

\* if not isinstance(rnn, SeqRecognizer): raise ...; return rnn
PyCheckAndReturn ==
    /\ py_pc = "unpickled"
    /\ IF IsSeqRecognizer(rnn)
       THEN py_pc' = "returned" /\ py_ret' = rnn /\ UNCHANGED py_exc
       ELSE py_pc' = "raised" /\ py_exc' = "KrakenInvalidModelException" /\ UNCHANGED py_ret
    /\ UNCHANGED <<py_args, py_of, rnn>>
    /\ UNCHANGED seg_vars

NextPyrnn ==
    \/ PyCall
    \/ PyOpen
    \/ PyUnpickle
    \/ PyCheckAndReturn

SpecPyrnn == Init /\ [][NextPyrnn]_vars

\* ------------------------------------------------------------------ claims

MaskSupplied == args.mask # NoMask

\* The call was given a mask whose size is not the image's.
MaskMismatch == pc # "idle" /\ MaskSupplied /\ args.mask.size # args.im.size

\* The call was given a mask that holds more than two pixel values.
MaskManyValued == pc # "idle" /\ MaskSupplied /\ Cardinality(args.mask.values) > 2

\* The call has ended: it returned or it raised.
Ended == pc \in {"done", "raised"}

\* The call ended in KrakenInputException with no forward pass run.
RejectedBeforeInference ==
    /\ nn_calls = 0
    /\ tensor = NoTensor
    /\ result = NoResult
    /\ pc \in {"entered", "loaded", "raised"}
    /\ ~Ended => ENABLED Next
    /\ pc = "raised" => exc = "KrakenInputException"

\* The same, with the error the model loader raises when the model file
\* does not load, which the code meets before it looks at the mask.
RejectedOrLoadFailed ==
    /\ nn_calls = 0
    /\ tensor = NoTensor
    /\ result = NoResult
    /\ pc \in {"entered", "loaded", "raised"}
    /\ ~Ended => ENABLED Next
    /\ pc = "raised" =>
          exc = (IF args.model_ok THEN "KrakenInputException" ELSE "ModelLoadError")

\* C1 as stated: every call with a mask whose size differs from the image's
\* fails with KrakenInputException, and no forward pass is run in it.
C1_MismatchAlwaysInputException == MaskMismatch => RejectedBeforeInference

\* C1 (amended): every call with a mask whose size differs from the image's
\* fails without a forward pass being run; the error is KrakenInputException
\* whenever the model file loads, and the loader's error otherwise.
C1_MismatchRejectedBeforeInference == MaskMismatch => RejectedOrLoadFailed

\* A bitonal mask of the wrong size was rejected by the size test.
C1_Witness ==
    /\ MaskMismatch
    /\ ~MaskNotBitonal(args.mask)
    /\ args.model_ok
    /\ pc = "raised"
    /\ exc = "KrakenInputException"
    /\ mask = Convert1(args.mask)

\* A supplied mask is past validation only if it holds at most two pixel
\* values and has the image's size.
AcceptedOnlyIfValid ==
    (MaskSupplied /\ pc \notin {"idle", "entered", "loaded", "raised"}) =>
        /\ Cardinality(args.mask.values) <= 2
        /\ args.mask.size = args.im.size

\* C2 as stated: every call with a mask that is not bitonal, whatever its
\* size, fails with KrakenInputException before the forward pass; a mask is
\* accepted only if it is bitonal and has the image's size.
C2_NonBitonalAlwaysInputException ==
    /\ MaskManyValued => RejectedBeforeInference
    /\ AcceptedOnlyIfValid

\* C2 (amended): every call with a mask that is not bitonal, whatever its
\* size, fails before the forward pass, with KrakenInputException whenever
\* the model file loads and the loader's error otherwise; a mask is accepted
\* only if it is bitonal and has the image's size.
C2_NonBitonalRejectedBeforeInference ==
    /\ MaskManyValued => RejectedOrLoadFailed
    /\ AcceptedOnlyIfValid

\* A three-valued mask of the image's own size was rejected.
C2_Witness ==
    /\ MaskManyValued
    /\ args.mask.size = args.im.size
    /\ args.model_ok
    /\ pc = "raised"
    /\ exc = "KrakenInputException"

\* C3: a call whose text_direction is not a recognized tag fails with an
\* input validation error before inference and returns no result.
C3_UnrecognizedDirectionRejected ==
    (pc # "idle" /\ args.text_direction \notin RecognizedDirections) =>
        /\ nn_calls = 0
        /\ pc # "done"
        /\ result = NoResult

\* The lines of the result are the vectorized lines, each rescaled, in some
\* order: one record per line, baseline and boundary of the same line.
IsRescaledPermutation(lines, vec, sc) ==
    /\ Len(lines) = Len(vec)
    /\ \E p \in Perms(Len(vec)) :
          \A k \in 1..Len(vec) :
              /\ lines[k].baseline = ScalePoints(vec[p[k]][1], sc)
              /\ lines[k].boundary = ScalePoints(vec[p[k]][2], sc)

\* C4: in a successful call the result holds exactly one record per line
\* kept by vectorization, each with that line's baseline and the boundary
\* vectorization paired with it; none is added, dropped or re-paired.
C4_OneRecordPerVectorizedLine ==
    pc = "done" => IsRescaledPermutation(result.lines, vectorized, scale)

\* Two lines were returned, in another order than vectorization found them,
\* from a raster that also held a discarded trace or not.
C4_Witness ==
    /\ pc = "done"
    /\ Len(result.lines) = 2
    /\ result.lines[1].baseline = ScalePoints(vectorized[2][1], scale)
    /\ result.lines[1].baseline # result.lines[2].baseline

InStages(st) == \E k \in 1..Len(stages) : stages[k] = st

\* C5: when vectorization yields no line, the call goes on to return
\* lines == [] with type and text_direction set; no later stage raises.
C5_EmptyIsSuccess ==
    (InStages("Vectorized") /\ vectorized = <<>>) =>
        /\ pc # "raised"
        /\ exc = None
        /\ pc # "done" => ENABLED Next
        /\ pc = "done" =>
              /\ result.lines = <<>>
              /\ result.type = "baselines"
              /\ result.text_direction = args.text_direction

\* A raster with no trace at all was segmented into an empty result.
C5_Witness ==
    /\ pc = "done"
    /\ o.traces = <<>>
    /\ vectorized = <<>>
    /\ result.lines = <<>>

\* d is s[-2:], said without slicing.
IsSuffixOfTwo(d, s) ==
    /\ Len(d) = (IF Len(s) < 2 THEN Len(s) ELSE 2)
    /\ \A k \in 1..Len(d) : d[k] = s[Len(s) - Len(d) + k]

\* C6: the lines of a result are what reading_order_fn returned, position
\* by position; the function is called once, on the rescaled lines, with
\* the last two characters of text_direction; the result carries the
\* caller's text_direction unchanged.
C6_LinesInReadingOrder ==
    /\ Len(ro_calls) <= 1
    /\ pc = "done" =>
          /\ Len(ro_calls) = 1
          /\ ro_calls[1][1] = scale_polygonal_lines(vectorized, scale)
          /\ IsSuffixOfTwo(ro_calls[1][2], args.text_direction)
          /\ Len(result.lines) = Len(ro_calls[1][3])
          /\ \A k \in 1..Len(result.lines) :
                /\ result.lines[k].baseline = ro_calls[1][3][k][1]
                /\ result.lines[k].boundary = ro_calls[1][3][k][2]
          /\ result.text_direction = args.text_direction

\* The reading order function changed the order of two lines.
C6_Witness ==
    /\ pc = "done"
    /\ args.text_direction = HorizontalLr
    /\ Len(ro_calls) = 1
    /\ ro_calls[1][2] = <<"l", "r">>
    /\ Len(result.lines) = 2
    /\ ro_calls[1][3] # ro_calls[1][1]

\* C7: with a valid mask, no returned line comes from a region that is
\* entirely 0 in the mask; a mask that is 0 everywhere leaves no line.
C7_MaskedRegionsExcluded ==
    (pc = "done" /\ MaskSupplied /\ args.mask.values = {0}) => result.lines = <<>>

StageOrder == <<"Preprocessed", "Inferred", "Vectorized", "Rescaled", "Ordered">>

\* The number of stages that have run at each position of the function.
StagesAt(p) ==
    CASE p = "preprocessed" -> 1
      [] p = "inferred" -> 2
      [] p = "vectorized" -> 3
      [] p = "rescaled" -> 4
      [] p \in {"ordered", "done"} -> 5
      [] OTHER -> 0

\* C8: the stages run in one fixed order, none skipped, repeated or
\* reordered; a result is returned only after the last stage; a failure
\* ends the call with an error and no result.
C8_LinearPipeline ==
    /\ stages = SubSeq(StageOrder, 1, Len(stages))
    /\ pc # "raised" => Len(stages) = StagesAt(pc)
    /\ result # NoResult <=> pc = "done"
    /\ pc = "raised" => (exc # None /\ result = NoResult /\ ~ENABLED Next)
    /\ pc # "raised" => exc = None
    /\ nn_calls = (IF Len(stages) >= 2 THEN 1 ELSE 0)

\* A call ran all five stages and returned lines.
C8_Witness ==
    /\ pc = "done"
    /\ stages = StageOrder
    /\ result.lines # <<>>

\* C9: scale is (image width / raster width, image height / raster height);
\* x is scaled by the first and y by the second; a raster of the image's
\* size gives the scale (1, 1) and leaves every coordinate as it was.
C9_ScalePerAxis ==
    pc \in {"rescaled", "ordered", "done"} =>
        LET iw == args.im.size[1]
            ih == args.im.size[2]
            ow == o.shape[3]
            oh == o.shape[2]
            Scaled(pt) == <<Frac(pt[1] * iw, ow), Frac(pt[2] * ih, oh)>>
            Same(pt) == <<<<pt[1], 1>>, <<pt[2], 1>>>>
        IN  /\ scale = <<Frac(iw, ow), Frac(ih, oh)>>
            /\ (iw = ow /\ ih = oh) => scale = <<<<1, 1>>, <<1, 1>>>>
            /\ pc = "rescaled" =>
                  /\ Len(baselines) = Len(vectorized)
                  /\ \A k \in 1..Len(vectorized) : \A c \in {1, 2} :
                        /\ Len(baselines[k][c]) = Len(vectorized[k][c])
                        /\ \A j \in 1..Len(vectorized[k][c]) :
                              /\ baselines[k][c][j] = Scaled(vectorized[k][c][j])
                              /\ (iw = ow /\ ih = oh) =>
                                    baselines[k][c][j] = Same(vectorized[k][c][j])

\* Lines were rescaled by different factors along x and y.
C9_Witness ==
    /\ pc = "rescaled"
    /\ baselines # <<>>
    /\ args.im.size[1] # args.im.size[2]
    /\ o.shape[2] # o.shape[3]
    /\ scale[1] # scale[2]
    /\ scale[1] # <<1, 1>>

\* C10: load_pyrnn (on a file that opens) either returns an object that is
\* a SeqRecognizer or raises KrakenInvalidModelException: whatever is wrong
\* with the pickle ends in that exception, and no other object is returned.
C10_SeqRecognizerOrInvalidModel ==
    py_args.exists =>
        /\ py_pc = "returned" => IsSeqRecognizer(py_ret)
        /\ py_pc = "raised" => py_exc = "KrakenInvalidModelException"

====
